---- MODULE Spec2Model ----
(***************************************************************************)
(* Model of src/pam_hbac_config.c: the configuration loader of pam_hbac.   *)
(*                                                                         *)
(* Strings are sequences of one-character strings.  The heap is the set    *)
(* `live` of block ids handed out by strdup/malloc/calloc and not yet      *)
(* freed; a pointer is a record [id, s] with id = 0 for NULL.  The logger  *)
(* is the set `log` of messages, each with the text of its %s argument.    *)
(* Every allocation, fopen() and gethostname() may fail.                   *)
(*                                                                         *)
(* Two specifications:                                                     *)
(*   Spec      one call of ph_read_config on a file, then ph_dump_config;  *)
(*   SpecLine  one call of read_config_line on an arbitrary line.          *)
(***************************************************************************)
EXTENDS Integers, Sequences, FiniteSets, TLC

VARIABLES
    file,        \* content of the configuration file, a string
    pos,         \* number of characters of file already consumed by fgets
    line,        \* the line buffer of ph_read_config
    pc,          \* position in ph_read_config / its caller
    conf,        \* the local `conf` of ph_read_config (the record)
    out,         \* the caller's output slot *_conf
    outWritten,  \* whether *_conf was ever assigned
    ret,         \* the local `ret` of ph_read_config
    fpOpen,      \* whether fp is an open stream
    nOpen,       \* number of successful fopen() calls
    nClose,      \* number of fclose() calls
    nCleanup,    \* number of times ph_cleanup_config released a record
    live,        \* ids of heap blocks allocated and not freed
    nextId,      \* next fresh block id
    log,         \* messages handed to logger()
    envFailed,   \* whether an allocation, fopen or gethostname has failed
    allocated,   \* whether calloc returned a record
    defaulted,   \* default_config: "no" (not called), "failed", "done"
    sysHostname  \* what gethostname() reported, once called

vars == <<file, pos, line, pc, conf, out, outWritten, ret, fpOpen, nOpen,
          nClose, nCleanup, live, nextId, log, envFailed, allocated,
          defaulted, sysHostname>>

(***************************************************************************)
(* Bounds of the model.                                                    *)
(***************************************************************************)
\* most physical lines in a file
MaxLines == 3
\* size of the line buffer (MAX_LINE is 1024 in the source; scaled down)
MAX_LINE == 8
\* size of the hostname buffer (HOST_NAME_MAX of <limits.h>; scaled down)
HOST_NAME_MAX == 3
\* longest system hostname considered
MaxHostLen == 4
\* longest line handed to read_config_line in SpecLine
MaxLineLen == 5

(***************************************************************************)
(* errno values and compile-time constants.                                *)
(***************************************************************************)
ENOENT == 2
EAGAIN == 11
ENOMEM == 12
EACCES == 13
EINVAL == 22

SEPARATOR == "="

\* The recognised keys and the defaults come from pam_hbac.h / config.h;
\* the model uses one-letter stand-ins for the key names.
PAM_HBAC_CONFIG_URI         == <<"u">>
PAM_HBAC_CONFIG_BIND_DN     == <<"d">>
PAM_HBAC_CONFIG_BIND_PW     == <<"p">>
PAM_HBAC_CONFIG_SEARCH_BASE == <<"b">>
PAM_HBAC_CONFIG_HOST_NAME   == <<"h">>
PAM_HBAC_DEFAULT_URI         == <<"l", "d">>
PAM_HBAC_DEFAULT_SEARCH_BASE == <<"d", "c">>
PAM_HBAC_DEFAULT_TIMEOUT     == 5

(***************************************************************************)
(* <ctype.h>, <string.h>                                                   *)
(***************************************************************************)
isspace(c) == c \in {" ", "\t", "\n"}

tolower(c) ==
    CASE c = "U" -> "u"
      [] c = "D" -> "d"
      [] c = "P" -> "p"
      [] c = "B" -> "b"
      [] c = "H" -> "h"
      [] c = "X" -> "x"
      [] OTHER   -> c

\* 0 when equal ignoring case, non-zero otherwise
strcasecmp(a, b) ==
    IF /\ Len(a) = Len(b)
       /\ \A i \in 1..Len(a) : tolower(a[i]) = tolower(b[i])
    THEN 0 ELSE 1

\* index of the first SEPARATOR of s, 0 for NULL
strchr(s) ==
    IF \E i \in 1..Len(s) : s[i] = SEPARATOR
    THEN CHOOSE i \in 1..Len(s) :
             /\ s[i] = SEPARATOR
             /\ \A j \in 1..(i-1) : s[j] # SEPARATOR
    ELSE 0

(***************************************************************************)
(* strip(): `start` walks forward over whitespace, `end` walks backward    *)
(* while it is above start, writing NULs.  The result is s[start..end].    *)
(***************************************************************************)
RECURSIVE StripStart(_, _)
StripStart(s, start) ==
    IF start <= Len(s) /\ isspace(s[start])
    THEN StripStart(s, start + 1)
    ELSE start

RECURSIVE StripEnd(_, _, _)
StripEnd(s, start, end) ==
    IF end > start /\ isspace(s[end])
    THEN StripEnd(s, start, end - 1)
    ELSE end

strip_leading_only(s) == SubSeq(s, StripStart(s, 1), Len(s))

strip(s) ==
    LET start == StripStart(s, 1)
        end   == StripEnd(s, start, Len(s))
    IN  SubSeq(s, start, end)

\* what is left of the buffer s, read from its first byte, after strip(s)
\* has written its NULs
AfterStrip(s) ==
    LET start == StripStart(s, 1)
    IN  SubSeq(s, 1, StripEnd(s, start, Len(s)))

(***************************************************************************)
(* Pointers, the record and the heap.                                      *)
(***************************************************************************)
NULL == [id |-> 0, s |-> <<>>]
Blk(i, str) == [id |-> i, s |-> str]

\* calloc'ed struct pam_hbac_config at block p (p = 0: no record)
NewConf(p) ==
    [ptr |-> p, uri |-> NULL, bind_dn |-> NULL, bind_pw |-> NULL,
     search_base |-> NULL, hostname |-> NULL, timeout |-> 0]

NoConf == NewConf(0)

\* free(): the NULL pointer is ignored
Free(lv, p) == lv \ {p.id}

\* ph_cleanup_config: the heap after releasing record c
ph_cleanup_config(c, lv) ==
    IF c.ptr = 0
    THEN lv
    ELSE lv \ {c.uri.id, c.search_base.id, c.hostname.id, c.ptr}

\* 1 when ph_cleanup_config(c) releases a record, 0 for the NULL no-op
Releases(c) == IF c.ptr = 0 THEN 0 ELSE 1

Msg(sev, fmt, arg) == [sev |-> sev, fmt |-> fmt, arg |-> arg]

(***************************************************************************)
(* get_key_value(line): lOk, kOk, vOk say whether the three strdup calls   *)
(* succeed; their blocks are nid, nid+1, nid+2.  `crash` is the write      *)
(* through the NULL returned by strdup(line).                              *)
(***************************************************************************)
NoSeparator_skipped(l, lv) ==
    [ret |-> EAGAIN, key |-> NULL, value |-> NULL, live |-> lv,
     crash |-> FALSE, buf |-> l, log |-> {}]

\* lines 117-120: no separator in the line
NoSeparator(l, lv) ==
    [ret |-> EINVAL, key |-> NULL, value |-> NULL, live |-> lv,
     crash |-> FALSE, buf |-> l,
     log |-> {Msg("ERR", "Malformed line; no separator", <<>>)}]

get_key_value(l, lv, nid, lOk, kOk, vOk) ==
    LET sep == strchr(l) IN
    IF sep = 0 THEN NoSeparator(l, lv)
    ELSE IF ~lOk THEN
        [ret |-> 0, key |-> NULL, value |-> NULL, live |-> lv,
         crash |-> TRUE, buf |-> l, log |-> {}]
    ELSE
        LET rest  == SubSeq(l, sep + 1, Len(l))
            key   == IF kOk THEN Blk(nid + 1, strip(SubSeq(l, 1, sep - 1)))
                     ELSE NULL
            value == IF vOk THEN Blk(nid + 2, strip(rest)) ELSE NULL
            lv2   == (lv \cup {key.id, value.id}) \ {0}
            \* strip(sep+1) wrote into the caller's line buffer
            buf   == SubSeq(l, 1, sep) \o AfterStrip(rest)
        IN  IF key = NULL \/ value = NULL
            THEN [ret |-> ENOMEM, key |-> NULL, value |-> NULL, live |-> lv2,
                  crash |-> FALSE, buf |-> buf, log |-> {}]
            ELSE [ret |-> 0, key |-> key, value |-> value, live |-> lv2,
                  crash |-> FALSE, buf |-> buf, log |-> {}]

\* the comment test of read_config_line, on the line after its leading
\* whitespace
IsComment_never(l) == FALSE

IsComment(l) == l # <<>> /\ l[1] = "#"

\* the strcasecmp chain of read_config_line: the record after the store,
\* the heap after the frees, and the debug message
StoreValue(c, key, value, lv) ==
    IF strcasecmp(key.s, PAM_HBAC_CONFIG_URI) = 0 THEN
        [conf |-> [c EXCEPT !.uri = value], live |-> lv,
         log |-> {Msg("DEBUG", "URI: %s", value.s)}]
    ELSE IF strcasecmp(key.s, PAM_HBAC_CONFIG_BIND_DN) = 0 THEN
        [conf |-> [c EXCEPT !.bind_dn = value], live |-> lv,
         log |-> {Msg("DEBUG", "bind dn: %s", value.s)}]
    ELSE IF strcasecmp(key.s, PAM_HBAC_CONFIG_BIND_PW) = 0 THEN
        [conf |-> [c EXCEPT !.bind_pw = value], live |-> lv, log |-> {}]
    ELSE IF strcasecmp(key.s, PAM_HBAC_CONFIG_SEARCH_BASE) = 0 THEN
        [conf |-> [c EXCEPT !.search_base = value], live |-> lv,
         log |-> {Msg("DEBUG", "search base: %s", value.s)}]
    ELSE IF strcasecmp(key.s, PAM_HBAC_CONFIG_HOST_NAME) = 0 THEN
        [conf |-> [c EXCEPT !.hostname = value], live |-> lv,
         log |-> {Msg("DEBUG", "host name: %s", value.s)}]
    ELSE
        [conf |-> c, live |-> Free(lv, value), log |-> {}]

(***************************************************************************)
(* read_config_line(line, conf)                                            *)
(***************************************************************************)
FailLog(r) == {Msg("CRIT", "cannot read config [%d]: %s", <<>>)}

read_config_line(ln, c, lv, nid, lOk, kOk, vOk) ==
    LET l == SubSeq(ln, StripStart(ln, 1), Len(ln)) IN
    IF IsComment(l) THEN
        [ret |-> EAGAIN, conf |-> c, live |-> lv, crash |-> FALSE,
         log |-> FailLog(EAGAIN)]
    ELSE
        LET kv == get_key_value(l, lv, nid, lOk, kOk, vOk) IN
        IF kv.crash THEN
            [ret |-> 0, conf |-> c, live |-> lv, crash |-> TRUE, log |-> {}]
        ELSE IF kv.ret # 0 THEN
            \* key and value are still NULL here: free_const(NULL)
            [ret |-> kv.ret, conf |-> c, live |-> kv.live, crash |-> FALSE,
             log |-> kv.log
                     \cup {Msg("ERR", "Cannot split \"%s\"", kv.buf)}
                     \cup FailLog(kv.ret)]
        ELSE
            LET st == StoreValue(c, kv.key, kv.value, kv.live) IN
            [ret |-> 0, conf |-> st.conf, live |-> Free(st.live, kv.key),
             crash |-> FALSE, log |-> st.log]

(***************************************************************************)
(* gethostname(buf, HOST_NAME_MAX) on a malloc'ed buffer: a name that does *)
(* not fit is truncated and left without its NUL.                          *)
(***************************************************************************)
Min(a, b) == IF a < b THEN a ELSE b

gethostname(name) ==
    [bytes      |-> SubSeq(name, 1, Min(Len(name), HOST_NAME_MAX)),
     terminated |-> Len(name) < HOST_NAME_MAX]

\* conf->hostname[HOST_NAME_MAX-1] = '\0'
TerminateHostname_missing(b) == b.bytes

TerminateHostname(b) ==
    IF b.terminated THEN b.bytes ELSE SubSeq(b.bytes, 1, HOST_NAME_MAX - 1)

(***************************************************************************)
(* default_config(conf): uOk, sOk say whether the two strdup calls         *)
(* succeed, mOk the malloc, hOk gethostname; name is the system hostname.  *)
(* conf.ptr = 0 in the result is the NULL return.                          *)
(***************************************************************************)
DefaultFail_returns_conf(c, lv) ==
    [conf |-> c, live |-> lv, released |-> 0, done |-> FALSE]

\* lines 84-87: the `fail` label
DefaultFail(c, lv) ==
    [conf |-> NoConf, live |-> ph_cleanup_config(c, lv),
     released |-> Releases(c), done |-> FALSE]

default_config(c, lv, nid, uOk, sOk, mOk, hOk, name) ==
    LET c1 == IF c.uri = NULL /\ uOk
              THEN [c EXCEPT !.uri = Blk(nid, PAM_HBAC_DEFAULT_URI)]
              ELSE c
        c2 == IF c1.search_base = NULL /\ sOk
              THEN [c1 EXCEPT !.search_base =
                                   Blk(nid + 1, PAM_HBAC_DEFAULT_SEARCH_BASE)]
              ELSE c1
        lv2 == (lv \cup {c2.uri.id, c2.search_base.id}) \ {0}
        c3 == [c2 EXCEPT !.hostname =
                   Blk(nid + 2, TerminateHostname(gethostname(name)))]
        lv3 == lv2 \cup {nid + 2}
        tmo(r) == IF r.timeout = 0
                  THEN [r EXCEPT !.timeout = PAM_HBAC_DEFAULT_TIMEOUT]
                  ELSE r
    IN  IF c2.search_base = NULL \/ c2.uri = NULL THEN DefaultFail(c2, lv2)
        ELSE IF c2.hostname = NULL THEN
            IF ~mOk THEN DefaultFail(c2, lv2)
            ELSE IF ~hOk THEN DefaultFail(c3, lv3)
            ELSE [conf |-> tmo(c3), live |-> lv3, released |-> 0,
                  done |-> TRUE]
        ELSE [conf |-> tmo(c2), live |-> lv2, released |-> 0, done |-> TRUE]

(***************************************************************************)
(* The files and lines the model reads.                                    *)
(***************************************************************************)
Rep(c, n) == [i \in 1..n |-> c]

\* The character "s" occurs only in values of the bind_pw key.
SecretChar == "s"

ConfigLines ==
    { <<"u", "=", "a", "\n">>,
      <<" ", "U", " ", "=", " ", "c", "\n">>,
      <<"b", "=", "a", "=", "c", "\n">>,
      <<"h", "=", "a", "\n">>,
      <<"d", "=", "a", "\n">>,
      <<"p", "=", SecretChar, "\n">>,
      \* a bind_pw line longer than the line buffer
      <<"p", "=">> \o Rep(SecretChar, MAX_LINE) \o <<"\n">>,
      <<"x", "=", "a", "\n">>,
      <<" ", "#", "u", "=", "c", "\n">>,
      <<"\n">>,
      <<"u", "a", "\n">>,
      \* an overlong line whose last chunk reads as a directive
      <<"x", "=">> \o Rep("c", MAX_LINE - 3) \o <<"u", "=", "c", "\n">> }

RECURSIVE FilesOf(_)
FilesOf(n) ==
    IF n = 0 THEN {<<>>}
    ELSE LET shorter == FilesOf(n - 1)
         IN  shorter \cup {f \o l : f \in shorter, l \in ConfigLines}

Files == FilesOf(MaxLines)

SysNames == {Rep("n", k) : k \in 1..MaxHostLen}

Alphabet == {" ", "=", "#", "u", "U", "a"}

LineInputs == UNION {[1..n -> Alphabet] : n \in 0..MaxLineLen}

(***************************************************************************)
(* fgets(line, MAX_LINE, fp): at most MAX_LINE-1 characters, stopping      *)
(* after a newline.  FgetsLen is 0 at end of file.                         *)
(***************************************************************************)
RECURSIVE FgetsLen(_, _, _)
FgetsLen(f, p, n) ==
    IF p + n >= Len(f) \/ n >= MAX_LINE - 1 THEN n
    ELSE IF f[p + n + 1] = "\n" THEN n + 1
    ELSE FgetsLen(f, p, n + 1)

(***************************************************************************)
(* ph_read_config                                                          *)
(***************************************************************************)
Init ==
    /\ file \in Files
    /\ pos = 0
    /\ line = <<>>
    /\ pc = "start"
    /\ conf = NoConf
    /\ out = NoConf
    /\ outWritten = FALSE
    /\ ret = -1
    /\ fpOpen = FALSE
    /\ nOpen = 0
    /\ nClose = 0
    /\ nCleanup = 0
    /\ live = {}
    /\ nextId = 1
    /\ log = {}
    /\ envFailed = FALSE
    /\ allocated = FALSE
    /\ defaulted = "no"
    /\ sysHostname = <<>>

\* lines 207-220
Fopen ==
    /\ pc = "start"
    /\ \/ /\ fpOpen' = TRUE
          /\ nOpen' = nOpen + 1
          /\ log' = log \cup {Msg("DEBUG", "config file: %s", <<>>)}
          /\ pc' = "calloc"
          /\ UNCHANGED <<ret, envFailed>>
       \/ \E e \in {ENOENT, EACCES} :
          /\ ret' = e
          /\ log' = log \cup {Msg("DEBUG", "config file: %s", <<>>),
                              Msg("ALERT", "cannot open config file", <<>>)}
          /\ envFailed' = TRUE
          /\ pc' = "returned"
          /\ UNCHANGED <<fpOpen, nOpen>>
    /\ UNCHANGED <<file, pos, line, conf, out, outWritten, nClose, nCleanup,
                   live, nextId, allocated, defaulted, sysHostname>>

\* lines 222-226
Calloc ==
    /\ pc = "calloc"
    /\ \/ /\ conf' = NewConf(nextId)
          /\ live' = live \cup {nextId}
          /\ nextId' = nextId + 1
          /\ allocated' = TRUE
          /\ pc' = "fgets"
          /\ UNCHANGED <<ret, envFailed>>
       \/ /\ ret' = ENOMEM
          /\ envFailed' = TRUE
          /\ pc' = "done"
          /\ UNCHANGED <<conf, live, nextId, allocated>>
    /\ UNCHANGED <<file, pos, line, out, outWritten, fpOpen, nOpen, nClose,
                   nCleanup, log, defaulted, sysHostname>>

\* line 228: the loop condition
Fgets ==
    /\ pc = "fgets"
    /\ LET n == FgetsLen(file, pos, 0) IN
       IF n = 0
       THEN /\ pc' = "default"
            /\ UNCHANGED <<line, pos>>
       ELSE /\ line' = SubSeq(file, pos + 1, pos + n)
            /\ pos' = pos + n
            /\ pc' = "interp"
    /\ UNCHANGED <<file, conf, out, outWritten, ret, fpOpen, nOpen, nClose,
                   nCleanup, live, nextId, log, envFailed, allocated,
                   defaulted, sysHostname>>

\* lines 230-238: one call of read_config_line and the loop's branch on it
ReadConfigLine ==
    /\ pc = "interp"
    /\ \E lOk, kOk, vOk \in BOOLEAN :
          LET l == SubSeq(line, StripStart(line, 1), Len(line))
              allocates == ~IsComment(l) /\ strchr(l) # 0
              r == read_config_line(line, conf, live, nextId, lOk, kOk, vOk)
          IN  /\ ~allocates => lOk /\ kOk /\ vOk
              /\ ~lOk => kOk /\ vOk
              /\ envFailed' = (envFailed \/ ~(lOk /\ kOk /\ vOk))
              /\ nextId' = nextId + 3
              /\ IF r.crash
                 THEN /\ pc' = "crashed"
                      /\ UNCHANGED <<conf, live, ret, log>>
                 ELSE /\ conf' = r.conf
                      /\ live' = r.live
                      /\ ret' = r.ret
                      /\ IF r.ret = EAGAIN \/ r.ret = 0
                         THEN /\ pc' = "fgets"
                              /\ log' = log \cup r.log
                         ELSE /\ pc' = "done"
                              /\ log' = log \cup r.log \cup
                                   {Msg("ERR",
                                        "couldn't read from the config file",
                                        <<>>)}
    /\ UNCHANGED <<file, pos, line, out, outWritten, fpOpen, nOpen, nClose,
                   nCleanup, allocated, defaulted, sysHostname>>

\* lines 241-249: default_config and the hand-over to the caller
DefaultConfig ==
    /\ pc = "default"
    /\ \E uOk, sOk, mOk, hOk \in BOOLEAN, name \in SysNames :
          LET r == default_config(conf, live, nextId, uOk, sOk, mOk, hOk,
                                  name)
              early == ~(uOk /\ sOk)
              called == ~early /\ conf.hostname = NULL /\ mOk
          IN  /\ conf.uri # NULL => uOk
              /\ conf.search_base # NULL => sOk
              /\ (early \/ conf.hostname # NULL) => mOk
              /\ ~called => hOk /\ name = Rep("n", 1)
              /\ envFailed' = (envFailed \/ ~(uOk /\ sOk /\ mOk /\ hOk))
              /\ sysHostname' = IF called THEN name ELSE sysHostname
              /\ nextId' = nextId + 3
              /\ conf' = r.conf
              /\ live' = r.live
              /\ nCleanup' = nCleanup + r.released
              /\ defaulted' = IF r.done THEN "done" ELSE "failed"
              /\ IF r.conf.ptr = 0
                 THEN /\ ret' = ENOMEM
                      /\ UNCHANGED <<out, outWritten>>
                 ELSE /\ ret' = 0
                      /\ out' = r.conf
                      /\ outWritten' = TRUE
              /\ pc' = "done"
    /\ UNCHANGED <<file, pos, line, fpOpen, nOpen, nClose, log, allocated>>

\* lines 250-255: the `done` label
DoneCleans_always(r) == TRUE

DoneCleans(r) == r # 0

FcloseCount_success_only(r, n) == IF r = 0 THEN n + 1 ELSE n

FcloseCount(r, n) == n + 1

Done ==
    /\ pc = "done"
    /\ IF DoneCleans(ret)
       THEN /\ live' = ph_cleanup_config(conf, live)
            /\ nCleanup' = nCleanup + Releases(conf)
       ELSE UNCHANGED <<live, nCleanup>>
    /\ nClose' = FcloseCount(ret, nClose)
    /\ fpOpen' = (nClose' = nClose)
    /\ pc' = "returned"
    /\ UNCHANGED <<file, pos, line, conf, out, outWritten, ret, nOpen, nextId,
                   log, envFailed, allocated, defaulted, sysHostname>>

\* lines 258-271, called on the caller's slot after ph_read_config returned
DumpLog(c) ==
    IF c.ptr = 0
    THEN {Msg("NOTICE", "NULL config pointer", <<>>)}
    ELSE {Msg("DEBUG", "URI: %s", c.uri.s),
          Msg("DEBUG", "search base %s", c.search_base.s),
          Msg("DEBUG", "bind DN %s", c.bind_dn.s),
          Msg("DEBUG", "timeout %d", <<>>),
          Msg("DEBUG", "client hostname %s", c.hostname.s)}

PhDumpConfig ==
    /\ pc = "returned"
    /\ log' = log \cup DumpLog(out)
    /\ pc' = "dumped"
    /\ UNCHANGED <<file, pos, line, conf, out, outWritten, ret, fpOpen,
                   nOpen, nClose, nCleanup, live, nextId, envFailed,
                   allocated, defaulted, sysHostname>>

Next ==
    \/ Fopen
    \/ Calloc
    \/ Fgets
    \/ ReadConfigLine
    \/ DefaultConfig
    \/ Done
    \/ PhDumpConfig

Spec == Init /\ [][Next]_vars

(***************************************************************************)
(* read_config_line on its own: any line, a freshly calloc'ed record.      *)
(***************************************************************************)
InitLine ==
    /\ line \in LineInputs
    /\ file = line
    /\ pos = Len(line)
    /\ pc = "interp"
    /\ conf = NewConf(1)
    /\ out = NoConf
    /\ outWritten = FALSE
    /\ ret = -1
    /\ fpOpen = TRUE
    /\ nOpen = 1
    /\ nClose = 0
    /\ nCleanup = 0
    /\ live = {1}
    /\ nextId = 2
    /\ log = {}
    /\ envFailed = FALSE
    /\ allocated = TRUE
    /\ defaulted = "no"
    /\ sysHostname = <<>>

NextLine == ReadConfigLine

SpecLine == InitLine /\ [][NextLine]_vars

(***************************************************************************)
(* Reference notions used by the properties, defined from the file format  *)
(* and not from the code's pointer walks.                                  *)
(***************************************************************************)
Returned == pc \in {"returned", "dumped"}

RefWs(c) == c \in {" ", "\t", "\n"}

NonWs(s) == {i \in 1..Len(s) : ~RefWs(s[i])}

SetMin(S) == CHOOSE x \in S : \A y \in S : x <= y
SetMax(S) == CHOOSE x \in S : \A y \in S : y <= x

\* s without its leading and trailing whitespace
RefTrim(s) ==
    IF NonWs(s) = {} THEN <<>>
    ELSE SubSeq(s, SetMin(NonWs(s)), SetMax(NonWs(s)))

RefBlank(s) == NonWs(s) = {}
RefComment(s) == ~RefBlank(s) /\ s[SetMin(NonWs(s))] = "#"
RefHasSep(s) == \E i \in 1..Len(s) : s[i] = "="

\* the text before and after the first "="
RefBefore(s) ==
    CHOOSE k \in {SubSeq(s, 1, i) : i \in 0..Len(s)} :
        /\ Len(k) < Len(s)
        /\ s[Len(k) + 1] = "="
        /\ \A j \in 1..Len(k) : k[j] # "="
RefAfter(s) == SubSeq(s, Len(RefBefore(s)) + 2, Len(s))

Lower(s) == [i \in 1..Len(s) |-> tolower(s[i])]

\* s is a directive for the recognised key K (K in lower case)
RefDirective(s, K) ==
    /\ ~RefComment(s)
    /\ RefHasSep(s)
    /\ Lower(RefTrim(RefBefore(s))) = K

\* the lines fgets hands to the interpreter: physical lines, except that a
\* physical line longer than MAX_LINE-1 bytes arrives as several lines
RECURSIVE FgetsLinesFrom(_, _)
FgetsLinesFrom(f, p) ==
    LET n == FgetsLen(f, p, 0) IN
    IF n = 0 THEN <<>>
    ELSE <<SubSeq(f, p + 1, p + n)>> \o FgetsLinesFrom(f, p + n)

FgetsLines(f) == FgetsLinesFrom(f, 0)

\* the lines already handed to the interpreter
ConsumedLines == FgetsLines(SubSeq(file, 1, pos))

\* the value a key has after `lines`, dflt when no line carries the key
RefLastValue(lines, K, dflt) ==
    LET idx == {i \in 1..Len(lines) : RefDirective(lines[i], K)} IN
    IF idx = {} THEN dflt ELSE RefTrim(RefAfter(lines[SetMax(idx)]))

(***************************************************************************)
(* C1: whenever ph_read_config fails (fopen, an allocation or gethostname  *)
(* failed, or the interpreter rejected a line) it returns a non-zero code  *)
(* and the caller's slot was never written; the slot is written only on    *)
(* the path that returns 0, with the record default_config completed.      *)
(***************************************************************************)
LineRejected ==
    \E i \in 1..Len(ConsumedLines) :
        ~RefComment(ConsumedLines[i]) /\ ~RefHasSep(ConsumedLines[i])

\* C1: a failed load returns non-zero and leaves *_conf unwritten; *_conf is
\* written only with ret = 0 and a record default_config completed.
C1_NoPartialRecord ==
    /\ outWritten =>
          /\ ret = 0
          /\ defaulted = "done"
          /\ out = conf
          /\ out.ptr # 0
    /\ Returned =>
          /\ (envFailed \/ LineRejected \/ defaulted = "failed") =>
                 (ret # 0 /\ ~outWritten /\ out = NoConf)
          /\ ret = 0 <=> outWritten

C1_Witness ==
    /\ Returned
    /\ defaulted = "failed"
    /\ conf.ptr = 0
    /\ ret = ENOMEM
    /\ ~outWritten
    /\ Len(file) > 0

(***************************************************************************)
(* C7: once fopen succeeded the stream is closed exactly once before       *)
(* ph_read_config returns, on every exit path; when fopen failed fclose    *)
(* is never called.                                                        *)
(***************************************************************************)
C7_ClosedExactlyOnce ==
    /\ nClose <= nOpen
    /\ fpOpen <=> (nOpen = 1 /\ nClose = 0)
    /\ Returned => (nClose = nOpen /\ ~fpOpen)

C7_Witness ==
    /\ Returned
    /\ nOpen = 1
    /\ nClose = 1
    /\ ret = EINVAL
    /\ conf.uri # NULL

C7_WitnessNoOpen == Returned /\ nOpen = 0 /\ nClose = 0

(***************************************************************************)
(* C10: the record is released by ph_cleanup_config at most once: exactly  *)
(* once when the load fails after calloc succeeded, never when the load    *)
(* succeeds; after a failed default_config the loader holds NULL and the   *)
(* error is ENOMEM.                                                        *)
(***************************************************************************)
C10_ReleasedAtMostOnce ==
    /\ nCleanup <= 1
    /\ defaulted = "failed" => (conf.ptr = 0 /\ ret = ENOMEM /\ nCleanup = 1)
    /\ Returned => nCleanup = (IF ret # 0 /\ allocated THEN 1 ELSE 0)

C10_Witness ==
    /\ Returned
    /\ defaulted = "failed"
    /\ sysHostname # <<>>
    /\ nCleanup = 1
    /\ ret = ENOMEM

(***************************************************************************)
(* C4: on every error exit every resource acquired is released: the        *)
(* stream, the record with every string it owns, and the key and value of  *)
(* get_key_value.                                                          *)
(***************************************************************************)
C4_NothingLeakedOnError ==
    (Returned /\ ret # 0) => (live = {} /\ ~fpOpen)

(***************************************************************************)
(* C3: no message handed to the logger carries text of a bind_pw value.    *)
(***************************************************************************)
C3_PasswordNeverLogged ==
    \A m \in log : \A i \in 1..Len(m.arg) : m.arg[i] # SecretChar

(***************************************************************************)
(* C5: a file with a line that is neither comment nor blank and has no "=" *)
(* fails to load whatever precedes or follows that line: no record is      *)
(* produced, nothing after that line is read, and the error is EINVAL      *)
(* (when the file opened and no allocation failed before the line).        *)
(***************************************************************************)
\* the physical line of f that ends at offset e
PhysLine(f, e) ==
    LET before == {i \in 1..(e - 1) : f[i] = "\n"}
    IN  SubSeq(f, IF before = {} THEN 1 ELSE SetMax(before) + 1, e)

\* end offsets of the physical lines of f without separator
MalformedEnds(f) ==
    {e \in 1..Len(f) :
        /\ f[e] = "\n" \/ e = Len(f)
        /\ ~RefBlank(PhysLine(f, e))
        /\ ~RefComment(PhysLine(f, e))
        /\ ~RefHasSep(PhysLine(f, e))}

\* C5: with a malformed line in the file nothing past it is read, no record
\* is produced, and the load fails, with EINVAL unless the environment failed.
C5_MalformedLineFailsLoad ==
    MalformedEnds(file) # {} =>
        /\ pos <= SetMin(MalformedEnds(file))
        /\ ~outWritten
        /\ Returned => ret # 0
        /\ (Returned /\ ~envFailed) => ret = EINVAL

C5_Witness ==
    /\ Returned
    /\ ~envFailed
    /\ ret = EINVAL
    /\ line = <<"u", "a", "\n">>
    /\ conf.uri # NULL
    /\ pos < Len(file)
    /\ RefDirective(SubSeq(file, pos + 1, Len(file)),
                    PAM_HBAC_CONFIG_SEARCH_BASE)

(***************************************************************************)
(* C6: after a successful load uri, search_base and hostname are present   *)
(* and timeout is non-zero; uri and search_base are the trimmed value of   *)
(* the last line carrying their key, else the compile-time default;        *)
(* hostname is the file's value, else the system hostname cut to fit,      *)
(* with its NUL, in HOST_NAME_MAX bytes.  A line is what fgets delivers.   *)
(***************************************************************************)
FittedHostname ==
    SubSeq(sysHostname, 1, Min(Len(sysHostname), HOST_NAME_MAX - 1))

RECURSIVE RefLoad(_, _, _)
RefLoad(lines, i, c) ==
    IF i > Len(lines) THEN [ok |-> TRUE, conf |-> c]
    ELSE LET r == read_config_line(lines[i], c, {}, 1, TRUE, TRUE, TRUE)
         IN  IF r.ret = 0 \/ r.ret = EAGAIN
             THEN RefLoad(lines, i + 1, r.conf)
             ELSE [ok |-> FALSE, conf |-> c]

NotAComment(s) == ~RefComment(s)

FieldText(c) ==
    <<c.uri.s, c.uri = NULL, c.bind_dn.s, c.bind_dn = NULL,
      c.bind_pw.s, c.bind_pw = NULL, c.search_base.s, c.search_base = NULL,
      c.hostname.s, c.hostname = NULL, c.timeout>>

SameAsWithoutComments ==
    (Returned /\ ~envFailed) =>
        LET r == RefLoad(SelectSeq(FgetsLines(file), NotAComment), 1,
                         NewConf(1))
            d == default_config(r.conf, {}, 1, TRUE, TRUE, TRUE, TRUE,
                                IF sysHostname = <<>> THEN Rep("n", 1)
                                ELSE sysHostname)
        IN  /\ ret = 0 <=> r.ok
            /\ ret = 0 => FieldText(out) = FieldText(d.conf)

CommentStep ==
    (pc = "interp" /\ RefComment(line)) =>
        /\ conf' = conf
        /\ live' = live
        /\ ret' = EAGAIN
        /\ pc' = "fgets"

\* C9: a comment line changes nothing and the load ends as without it.
C9_CommentLeavesRecord == [][CommentStep]_vars /\ []SameAsWithoutComments

C9_Witness ==
    /\ Returned
    /\ ret = 0
    /\ \E i \in 1..Len(FgetsLines(file)) : RefComment(FgetsLines(file)[i])
    /\ out.uri.s = <<"a">>
    /\ out.bind_pw # NULL

(***************************************************************************)
(* C2: a file whose lines are directives, comments and blank lines loads:  *)
(* a blank line is skipped like a comment.                                 *)
(***************************************************************************)
C2_BlankLineSkipped ==
    (/\ Returned
     /\ ~envFailed
     /\ \A i \in 1..Len(FgetsLines(file)) :
           \/ RefBlank(FgetsLines(file)[i])
           \/ RefComment(FgetsLines(file)[i])
           \/ RefHasSep(FgetsLines(file)[i]))
    => ret = 0
====
